---------------------------- MODULE Spec2Model ----------------------------
(***************************************************************************)
(* A model of react-native-copilot's positioning-and-transition core:      *)
(*   - CopilotProvider (src/src/contexts/CopilotProvider.tsx): the tour     *)
(*     controller, start / stop / next / prev / nth and the isAnimating     *)
(*     re-entrancy flag;                                                    *)
(*   - CopilotModal (src/unnamed/part_000): the modal, its _animateMove     *)
(*     geometry computation, reset and the mount state of the container.    *)
(*                                                                         *)
(* JavaScript runs every callback to its first await in one turn of the    *)
(* event loop; an action of this model is one such turn.  A call that is   *)
(* suspended at an await is a record in `tasks`; its `pc` names the await. *)
(*                                                                         *)
(* Numbers: a length is an integer count of 1/Scale pixels, so that a      *)
(* fractional pixel value exists and Math.floor is not the identity.       *)
(* NaN is a value of its own.                                               *)
(***************************************************************************)
EXTENDS Integers, Sequences, FiniteSets

\* ------------------------------------------------------------------ bounds
\* Sub-pixel units per pixel.
Scale == 2
\* Steps the application may register; a step's name is its order, 1..NumSteps.
NumSteps == 2
\* Calls suspended at an await at the same time.
MaxTasks == 2
\* Tweens counted on the mask's animated values; the count stops there.
MaxTweens == 2
\* measureLayout callbacks pending at the same time.
MaxScrolls == 2

\* --------------------------------------------------------- program constants
MAX_START_TRIES == 120
\* components/style (STEP_NUMBER_RADIUS, STEP_NUMBER_DIAMETER, MARGIN,
\* ARROW_SIZE, OFFSET_WIDTH), in pixels.
STEP_NUMBER_RADIUS == 14
STEP_NUMBER_DIAMETER == 2 * STEP_NUMBER_RADIUS
MARGIN == 13
ARROW_SIZE == 6
OFFSET_WIDTH == 4

\* --------------------------------------------------------------- JS numbers
\* The JavaScript NaN, and a property that is absent (undefined).
NaN == -1000000
Undefined == NaN - 1

Px(n) == n * Scale

IsNum(a) == a # NaN /\ a # Undefined
\* a + b, a - b: NaN when an operand is NaN or undefined.
Add(a, b) == IF IsNum(a) /\ IsNum(b) THEN a + b ELSE NaN
Sub(a, b) == IF IsNum(a) /\ IsNum(b) THEN a - b ELSE NaN
\* Math.max, Math.min, Math.abs, Math.floor.
MathMax(a, b) == IF IsNum(a) /\ IsNum(b) THEN (IF a >= b THEN a ELSE b) ELSE NaN
MathMin(a, b) == IF IsNum(a) /\ IsNum(b) THEN (IF a <= b THEN a ELSE b) ELSE NaN
MathAbs(a) == IF IsNum(a) THEN (IF a < 0 THEN -a ELSE a) ELSE NaN
MathFloor(a) == IF IsNum(a) THEN (a \div Scale) * Scale ELSE NaN
\* a > b, a >= b, a < b: false when an operand is NaN.
Gt(a, b) == IsNum(a) /\ IsNum(b) /\ a > b
Ge(a, b) == IsNum(a) /\ IsNum(b) /\ a >= b
Lt(a, b) == IsNum(a) /\ IsNum(b) /\ a < b

\* An object is a function from its own property names to values.
EmptyObj == [k \in {} |-> 0]
Prop(obj, k) == IF k \in DOMAIN obj THEN obj[k] ELSE Undefined
\* obj with obj.k = v.
SetProp(obj, k, v) == [j \in (DOMAIN obj) \cup {k} |-> IF j = k THEN v ELSE obj[j]]

\* floorify: Math.floor of every property whose typeof is "number" (NaN is one).
floorify(obj) == [k \in DOMAIN obj |-> MathFloor(obj[k])]

\* removeNan: delete every property that is NaN.
removeNan(obj) == [k \in {j \in DOMAIN obj : obj[j] # NaN} |-> obj[k]]

sanitize(obj) == removeNan(floorify(obj))

makeDefaultLayout == [x |-> 0, y |-> 0, width |-> 0, height |-> 0]

\* ------------------------------------------------------- geometry engine
\* _animateMove's computation, from the rect it is given to the values it
\* publishes.  `layout` is newMeasuredLayout, `knownHeight` is
\* tooltipHeightRef.current, `statusBar` is what line 182 subtracts (0 unless
\* Platform.OS is android and androidStatusBarVisible is false).

\* rect.y -= StatusBar.currentHeight ?? 0
compensate(rect, statusBar) == [rect EXCEPT !.y = Sub(@, statusBar)]

\* let stepNumberLeft = ...  (lines 185-192)
stepNumberLeftOf(rect, layout) ==
  LET first == Sub(rect.x, Px(STEP_NUMBER_RADIUS))
      second == Sub(Add(rect.x, rect.width), Px(STEP_NUMBER_RADIUS))
      most == Sub(layout.width, Px(STEP_NUMBER_DIAMETER))
  IN  IF Lt(first, 0)
      THEN (IF Gt(second, most) THEN most ELSE second)
      ELSE first

\* Twice center.x and twice center.y: the code compares center distances only,
\* and a > b iff 2a > 2b, so the halves of rect.width / 2 need no finer unit.
center2(rect) == [x |-> Add(Add(rect.x, rect.x), rect.width),
                  y |-> Add(Add(rect.y, rect.y), rect.height)]

spaceAboveOf(rect, insets, margin) == Sub(Sub(rect.y, insets.top), margin)
spaceBelowOf(rect, layout, insets, margin) ==
  Sub(Sub(Sub(layout.height, Add(rect.y, rect.height)), insets.bottom), margin)

\* The placement by the center's distances alone, whatever the known height.
verticalPositionByCenter(rect, layout, insets, margin, knownHeight) ==
  LET c == center2(rect)
  IN  IF Gt(MathAbs(Sub(c.y, Add(layout.height, layout.height))), c.y)
      THEN "bottom" ELSE "top"

\* verticalPosition (lines 204-224)
verticalPositionOf(rect, layout, insets, margin, knownHeight) ==
  LET c == center2(rect)
      relativeToTop2 == c.y
      relativeToBottom2 == MathAbs(Sub(c.y, Add(layout.height, layout.height)))
      spaceAbove == spaceAboveOf(rect, insets, margin)
      spaceBelow == spaceBelowOf(rect, layout, insets, margin)
  IN  IF Gt(knownHeight, 0)
      THEN IF Ge(spaceBelow, knownHeight) THEN "bottom"
           ELSE IF Ge(spaceAbove, knownHeight) THEN "top"
           ELSE IF Ge(spaceBelow, spaceAbove) THEN "bottom" ELSE "top"
      ELSE IF Gt(relativeToBottom2, relativeToTop2) THEN "bottom" ELSE "top"

\* The tooltip anchored by its left whatever the target's center.
horizontalPositionRight(rect, layout) == "right"

\* horizontalPosition (lines 225-226)
horizontalPositionOf(rect, layout) ==
  LET c == center2(rect)
      relativeToLeft2 == c.x
      relativeToRight2 == MathAbs(Sub(c.x, Add(layout.width, layout.width)))
  IN  IF Gt(relativeToLeft2, relativeToRight2) THEN "left" ELSE "right"

\* The bottom case without its clamp to maxTop.
bottomCaseTopUnclamped(rect, layout, insets, margin, knownHeight) ==
  MathMax(Add(Add(rect.y, rect.height), margin), Add(insets.top, margin))

\* The bottom case with its clamp to maxTop applied whatever the known height.
bottomCaseTopAlwaysClamped(rect, layout, insets, margin, knownHeight) ==
  MathMax(MathMin(Add(Add(rect.y, rect.height), margin),
                  Sub(Sub(Sub(layout.height, knownHeight), insets.bottom), margin)),
          Add(insets.top, margin))

\* tooltip.top of the bottom case (lines 234-240)
bottomCaseTop(rect, layout, insets, margin, knownHeight) ==
  LET idealTop == Add(Add(rect.y, rect.height), margin)
      maxTop == IF Gt(knownHeight, 0)
                THEN Sub(Sub(Sub(layout.height, knownHeight), insets.bottom), margin)
                ELSE idealTop
  IN  MathMax(MathMin(idealTop, maxTop), Add(insets.top, margin))

\* tooltip.bottom of the top case (lines 247-255)
topCaseBottom(rect, layout, insets, margin, knownHeight) ==
  LET bottom == Sub(layout.height, Sub(rect.y, margin))
      minBottom == Add(margin, insets.bottom)
      maxBottom == IF Gt(knownHeight, 0)
                   THEN Sub(Sub(Sub(layout.height, knownHeight), insets.top), margin)
                   ELSE bottom
  IN  MathMax(MathMin(bottom, maxBottom), minBottom)

\* The vertical fields with the arrow one arrowSize from the tooltip's edge
\* instead of two.
verticalAssemblyShortArrow(vertical, rect, layout, insets, margin, arrowSize, knownHeight) ==
  IF vertical = "bottom"
  THEN LET top == bottomCaseTop(rect, layout, insets, margin, knownHeight)
       IN  [tooltip |-> SetProp(EmptyObj, "top", top),
            arrow |-> SetProp(EmptyObj, "top", Sub(top, arrowSize)),
            arrowColored |-> "borderBottomColor"]
  ELSE LET bottom == topCaseBottom(rect, layout, insets, margin, knownHeight)
       IN  [tooltip |-> SetProp(EmptyObj, "bottom", bottom),
            arrow |-> SetProp(EmptyObj, "bottom", Sub(bottom, arrowSize)),
            arrowColored |-> "borderTopColor"]

\* The vertical fields of tooltip and arrow (lines 233-261).
verticalAssembly(vertical, rect, layout, insets, margin, arrowSize, knownHeight) ==
  IF vertical = "bottom"
  THEN LET top == bottomCaseTop(rect, layout, insets, margin, knownHeight)
       IN  [tooltip |-> SetProp(EmptyObj, "top", top),
            arrow |-> SetProp(EmptyObj, "top", Sub(top, Add(arrowSize, arrowSize))),
            arrowColored |-> "borderBottomColor"]
  ELSE LET bottom == topCaseBottom(rect, layout, insets, margin, knownHeight)
       IN  [tooltip |-> SetProp(EmptyObj, "bottom", bottom),
            arrow |-> SetProp(EmptyObj, "bottom", Sub(bottom, Add(arrowSize, arrowSize))),
            arrowColored |-> "borderTopColor"]

\* The horizontal fields added to tooltip and arrow (lines 263-278).
horizontalAssembly(horizontal, v, rect, layout, margin) ==
  IF horizontal = "left"
  THEN LET r0 == MathMax(Sub(layout.width, Add(rect.x, rect.width)), 0)
           right == IF r0 = 0 THEN Add(r0, margin) ELSE r0
       IN  [v EXCEPT
              !.tooltip = SetProp(SetProp(@, "right", right),
                                  "maxWidth", Sub(Sub(layout.width, right), margin)),
              !.arrow = SetProp(@, "right", Add(right, margin))]
  ELSE LET l0 == MathMax(rect.x, 0)
           left == IF l0 = 0 THEN Add(l0, margin) ELSE l0
       IN  [v EXCEPT
              !.tooltip = SetProp(SetProp(@, "left", left),
                                  "maxWidth", Sub(Sub(layout.width, left), margin)),
              !.arrow = SetProp(@, "left", Add(left, margin))]

\* setMaskRect's argument (lines 296-301), from the sanitized rect.
maskRectOf(rect) ==
  [width |-> Prop(rect, "width"),
   height |-> Prop(rect, "height"),
   x |-> MathFloor(MathMax(Prop(rect, "x"), 0)),
   y |-> MathFloor(MathMax(Prop(rect, "y"), 0))]

\* Everything _animateMove computes between its await of measure() and its
\* state setters (lines 181-301).
computeGeometry(rect0, layout, insets, margin, arrowSize, knownHeight, statusBar) ==
  LET rect == compensate(rect0, statusBar)
      vertical == verticalPositionOf(rect, layout, insets, margin, knownHeight)
      horizontal == horizontalPositionOf(rect, layout)
      v == verticalAssembly(vertical, rect, layout, insets, margin, arrowSize, knownHeight)
      a == horizontalAssembly(horizontal, v, rect, layout, margin)
      clean == sanitize(rect)
  IN  [tooltip |-> sanitize(a.tooltip),
       arrow |-> sanitize(a.arrow),
       arrowColored |-> a.arrowColored,
       verticalPosition |-> vertical,
       horizontalPosition |-> horizontal,
       maskRect |-> maskRectOf(clean),
       top |-> Prop(clean, "y"),
       stepNumberLeft |-> stepNumberLeftOf(rect, layout)]

\* ------------------------------------------------------------------ state
VARIABLES
  \* CopilotProvider
  startTries,     \* startTries.current
  isAnimating,    \* isAnimating.current, the transitioning flag
  visible,        \* the visible state
  scrollView,     \* whether the scrollView state holds a scroll view
  steps,          \* useStepsMap: the registered steps
  currentStep,    \* useStepsMap: the current step, 0 when undefined
  tasks,          \* the calls suspended at an await, by slot
  \* CopilotModal: its state and refs, one field each
  modal,
  \* the props and the environment of the two components
  env,
  \* the scroll requests of setCurrentStep: the measureLayout callbacks not
  \* yet run, and the argument of the latest scrollView.scrollTo
  scroll,
  \* observation: the operation of the latest turn and what it emitted
  op,
  emitted

vars == <<startTries, isAnimating, visible, scrollView, steps, currentStep,
          tasks, modal, env, scroll, op, emitted>>

Steps == 1..NumSteps
Slots == 1..MaxTasks

\* An optional value: << >> for undefined / null, <<v>> for v.
None == << >>
Some(v) == <<v>>

Ev(name, step) == [ev |-> name, step |-> step]

\* --------------------------------------------------------------- the mask
\* The mask component the modal renders while contentVisible: its two
\* Animated.ValueXY (sizeValue, positionValue) move together, so one record
\* holds the rect they are set or tweened to (rect), the rect they hold
\* (value) and the number of tweens running on them.  env.mask names the
\* component: SvgMask (components/SvgMask.tsx), its other revision (part_001)
\* or ViewMask (part_002).  `pushed` is the input of the latest
\* maskRef.current.setNativeProps({ d }), `repeated` whether some push had the
\* input of the push before it, `laidOut` whether handleLayout has run.
unmountedMask ==
  [mounted |-> FALSE, rect |-> None, value |-> None, tweens |-> 0,
   laidOut |-> FALSE, pushed |-> None, repeated |-> FALSE]

\* canvasSize: Dimensions.get("window") at first (SvgMask.tsx lines 42-45),
\* then the size handleLayout reports (lines 150-159); the mask fills the
\* container, which fills the window.
canvasSize == [x |-> env.window.width, y |-> env.window.height]

\* What svgMaskPath is computed from (SvgMask.tsx lines 70-75).
pathInputs(mask) == [value |-> mask.value, canvasSize |-> canvasSize]

\* animationListener (SvgMask.tsx lines 69-81, part_001 lines 58-69): the path
\* is computed, and pushed if maskRef.current is set, which it is from the
\* mount of the component to its unmount.
animationListener(mask) ==
  IF mask.mounted
  THEN [mask EXCEPT !.pushed = Some(pathInputs(mask)),
                    !.repeated = @ \/ mask.pushed = Some(pathInputs(mask))]
  ELSE mask

\* positionValue.addListener(animationListener) (SvgMask.tsx lines 116-121,
\* part_001 lines 96-101): the listener runs when positionValue is given a
\* value.  ViewMask adds no listener.
notifyListeners(mask, kind) ==
  IF kind \in {"SvgMask", "part_001"} THEN animationListener(mask) ELSE mask

\* sizeValue.stopAnimation(); positionValue.stopAnimation()
\* (SvgMask.tsx lines 89-90, part_002 lines 34-35)
stopAnimation(mask) == [mask EXCEPT !.tweens = 0]

\* Animated.parallel([...]).start() or the two setValue calls, to toRect.
tweenOrSet(mask, toRect, animated, kind) ==
  IF animated
  THEN [mask EXCEPT !.rect = Some(toRect),
                    !.tweens = IF @ < MaxTweens THEN @ + 1 ELSE @]
  ELSE notifyListeners([mask EXCEPT !.rect = Some(toRect),
                                    !.value = Some(toRect)], kind)

\* animate of SvgMask.tsx (lines 84-113) and of ViewMask (part_002 lines 29-58)
animateStopping(mask, toRect, animated, kind) ==
  tweenOrSet(stopAnimation(mask), toRect, animated, kind)

\* animate of part_001 (lines 71-94)
animatePlain(mask, toRect, animated, kind) ==
  tweenOrSet(mask, toRect, animated, kind)

\* The effects of the render that mounts the component with the props
\* `toRect`.  SvgMask.tsx: the values are set (lines 124-136), then the
\* effect keyed on canvasSize and the effect keyed on animationListener each
\* call animationListener (lines 138-148).  part_001: animate is called (lines
\* 107-111).  ViewMask: the values are set (part_002 lines 60-70).
maskMount(mask, toRect, kind, animated) ==
  LET made == [mask EXCEPT !.mounted = TRUE, !.rect = Some(toRect),
                           !.value = Some(toRect)]
  IN  IF kind = "part_001" THEN animatePlain(made, toRect, animated, kind)
      ELSE IF kind = "SvgMask"
      THEN animationListener(animationListener(notifyListeners(made, kind)))
      ELSE made

\* The effect keyed on the size and position props (SvgMask.tsx lines 124-136,
\* part_002 lines 60-70, part_001 lines 107-111), for the render in which the
\* props are `toRect`; `first` is the render that mounts the component.
maskEffect(mask, toRect, first, kind, animated) ==
  IF first THEN maskMount(mask, toRect, kind, animated)
  ELSE IF kind = "part_001" THEN animatePlain(mask, toRect, animated, kind)
  ELSE animateStopping(mask, toRect, animated, kind)

\* renderMask (part_000 lines 434-457) after a change of the modal's state:
\* the mask is rendered while contentVisible, and its effect runs when it
\* mounts and when maskSize or maskPosition (lines 397-413) changed.
renderMask(m) ==
  IF ~(m.layout # None /\ m.containerVisible /\ m.maskRect # None)
  THEN [m EXCEPT !.mask = unmountedMask]
  ELSE IF ~m.mask.mounted
  THEN [m EXCEPT !.mask = maskEffect(@, m.maskRect[1], TRUE, env.mask, env.animated)]
  ELSE IF m.mask.rect = m.maskRect
  THEN m
  ELSE [m EXCEPT !.mask = maskEffect(@, m.maskRect[1], FALSE, env.mask, env.animated)]

\* A tween on the mask's values runs to its end: the values reach the rect
\* they were tweened to.
tweenEnds(m) ==
  [m EXCEPT !.mask = notifyListeners([m.mask EXCEPT !.tweens = @ - 1,
                                                    !.value = m.mask.rect],
                                     env.mask)]

\* handleLayout (SvgMask.tsx lines 150-159, part_001 lines 113-122):
\* setCanvasSize with a new object.  In SvgMask.tsx the effect keyed on
\* canvasSize calls animationListener (lines 138-141); in part_001 the
\* listener is made anew and added again, and nothing is pushed.
handleLayout(mask, kind) ==
  LET laid == [mask EXCEPT !.laidOut = TRUE]
  IN  IF kind = "SvgMask" THEN animationListener(laid) ELSE laid

\* -------------------------------------------------------------- the modal
\* reset (part_000 lines 356-370), as the modal state after it.
reset(m) ==
  [m EXCEPT !.isAnimated = FALSE,
            !.containerVisible = FALSE,
            !.layout = None,
            !.maskRect = None,
            !.tooltipStyles = EmptyObj,
            !.arrowStyles = [offsets |-> EmptyObj, colored |-> "none"],
            !.tooltipHeight = 0,
            !.tooltipHeightRef = 0,
            !.currentRectRef = None,
            !.layoutRef = makeDefaultLayout,
            !.animatedValues = [top |-> 0, stepNumberLeft |-> 0],
            !.mask = unmountedMask]

\* The modal constructed with isAnimated true.
initialModalAnimated ==
  [isAnimated |-> TRUE,
   containerVisible |-> FALSE,
   layout |-> None,
   maskRect |-> None,
   tooltipStyles |-> EmptyObj,
   arrowStyles |-> [offsets |-> EmptyObj, colored |-> "none"],
   tooltipHeight |-> 0,
   tooltipHeightRef |-> 0,
   currentRectRef |-> None,
   layoutRef |-> makeDefaultLayout,
   animatedValues |-> [top |-> 0, stepNumberLeft |-> 0],
   tweening |-> FALSE,
   mask |-> unmountedMask]

\* The modal as constructed (useState / useRef initial values, lines 86-106).
initialModal ==
  [isAnimated |-> FALSE,
   containerVisible |-> FALSE,
   layout |-> None,
   maskRect |-> None,
   tooltipStyles |-> EmptyObj,
   arrowStyles |-> [offsets |-> EmptyObj, colored |-> "none"],
   tooltipHeight |-> 0,
   tooltipHeightRef |-> 0,
   currentRectRef |-> None,
   layoutRef |-> makeDefaultLayout,
   animatedValues |-> [top |-> 0, stepNumberLeft |-> 0],
   tweening |-> FALSE,
   mask |-> unmountedMask]

\* The modal without the effect that mounts the container.
mountNever(m, v) == m

\* useEffect(() => { if (visible) setContainerVisible(true) }, [visible])
mountOnVisible(m, v) == IF v THEN [m EXCEPT !.containerVisible = TRUE] ELSE m

\* useEffect(() => { if (!visible) reset() }, [visible])
resetOnHidden(m, v) == IF ~v THEN reset(m) ELSE m

\* The two effects keyed on [visible]: React runs them when visible changed.
visibleEffects(m, was, now) ==
  IF was = now THEN m ELSE resetOnHidden(mountOnVisible(m, now), now)

\* modalVisible and contentVisible (lines 393-394)
modalVisible == modal.containerVisible \/ visible
contentVisible == modal.layout # None /\ modal.containerVisible

\* The record made after the status-bar compensation and the flooring instead
\* of before them.
recordRectCompensated(m, rect, stepName) ==
  [m EXCEPT !.currentRectRef =
     Some([rect |-> [rect EXCEPT !.y = MathFloor(Sub(@, env.statusBar))],
           stepName |-> stepName,
           calculatedWithHeight |-> m.tooltipHeightRef])]

\* _animateMove up to its await of measure(): the record of the rect
\* (lines 175-179).
recordRect(m, rect, stepName) ==
  [m EXCEPT !.currentRectRef =
     Some([rect |-> rect, stepName |-> stepName,
           calculatedWithHeight |-> m.tooltipHeightRef])]

\* _animateMove after its await of measure(): the computation, the stop of the
\* two animated values, the state setters and the instant or animated move
\* (lines 180-322).
applyMove(m, rect) ==
  LET g == computeGeometry(rect, m.layoutRef, env.insets, env.margin,
                           env.arrowSize, m.tooltipHeightRef, env.statusBar)
  IN  renderMask(
      [m EXCEPT !.tooltipStyles = g.tooltip,
                !.arrowStyles = [offsets |-> g.arrow, colored |-> g.arrowColored],
                !.layout = Some(m.layoutRef),
                !.maskRect = Some(g.maskRect),
                !.tweening = m.isAnimated,
                !.animatedValues =
                   IF m.isAnimated THEN @
                   ELSE [top |-> g.top, stepNumberLeft |-> g.stepNumberLeft]])

\* animateMove (lines 339-354) up to its requestAnimationFrame.
animateMoveCall(m) == [m EXCEPT !.containerVisible = TRUE]

\* ---------------------------------------------------------- the registry
\* useStepsMap: the queries the provider makes.
getFirstStep == IF steps = {} THEN 0 ELSE CHOOSE s \in steps : \A t \in steps : s <= t
getNextStep ==
  LET after == {s \in steps : s > currentStep}
  IN  IF currentStep = 0 \/ after = {} THEN 0
      ELSE CHOOSE s \in after : \A t \in after : s <= t
getPrevStep ==
  LET before == {s \in steps : s < currentStep}
  IN  IF currentStep = 0 \/ before = {} THEN 0
      ELSE CHOOSE s \in before : \A t \in before : s >= t
getNthStep(n) ==
  LET nth == {s \in steps : Cardinality({t \in steps : t <= s}) = n}
  IN  IF nth = {} THEN 0 ELSE CHOOSE s \in nth : TRUE
\* fromStep ? steps[fromStep] : getFirstStep()   (provider line 149)
lookupStep(fromStep) ==
  IF fromStep # 0 THEN (IF fromStep \in steps THEN fromStep ELSE 0) ELSE getFirstStep

\* What step.measure() yields for a step that can be measured, in pixels
\* times Scale: step s sits s * 150.5 pixels down a 400 x 800 screen.
stepSize(s) == [x |-> Px(20) + 1, y |-> s * (Px(150) + 1), width |-> Px(80), height |-> Px(40)]

\* The rect moveModalToStep hands to animateMove (provider lines 94-99).
moveRect(size) ==
  [width |-> size.width + Px(OFFSET_WIDTH),
   height |-> size.height + Px(OFFSET_WIDTH),
   x |-> size.x - Px(OFFSET_WIDTH) \div 2,
   y |-> size.y - Px(OFFSET_WIDTH) \div 2 + env.verticalOffset]

\* ------------------------------------------------------------- the tasks
NoRect == makeDefaultLayout
Idle == [kind |-> "none", pc |-> "none", step |-> 0, changed |-> FALSE,
         rect |-> NoRect, attempts |-> 0, solo |-> FALSE, ahead |-> 0,
         scrollView |-> FALSE]
Task(kind, pc, step) == [Idle EXCEPT !.kind = kind, !.pc = pc, !.step = step]

\* requestAnimationFrame runs its callbacks in the order they were requested:
\* a move that waits for its frame, or polls for the layout every frame, has
\* `ahead` moves that asked before it and are still waiting.
Queued(t) == t.pc \in {"frame", "layout"}
enqueue(t) == [t EXCEPT !.ahead = Cardinality({j \in Slots : Queued(tasks[j])})]
dequeue(i) ==
  [j \in Slots |->
     IF j = i THEN Idle
     ELSE IF Queued(tasks[j]) /\ tasks[j].ahead > tasks[i].ahead
     THEN [tasks[j] EXCEPT !.ahead = @ - 1]
     ELSE tasks[j]]
\* Frame callbacks in any order.
frameTurnAny(i) == TRUE

\* The frame callbacks requested before task i's have run, and have not
\* resolved in this frame.
frameTurn(i) ==
  \A j \in Slots \ {i} :
    (Queued(tasks[j]) /\ tasks[j].ahead < tasks[i].ahead) =>
       (tasks[j].pc = "layout" /\ modal.layoutRef.width = 0)

FreeSlots == {i \in Slots : tasks[i].kind = "none"}
NewSlot == CHOOSE i \in FreeSlots : \A j \in FreeSlots : i <= j

\* ------------------------------------------------------------ the provider
\* No measureLayout callback pending, scrollTo never called.
noScroll == [pending |-> << >>, requested |-> None]
\* One more measureLayout callback may be left pending.
scrollRoom == Len(scroll.pending) < MaxScrolls

\* The guard left out: a call is never dropped.
blockedNever == FALSE

\* if (isAnimating.current) return   (setCurrentStep line 107; next, nth and
\* prev lines 190, 196, 203)
blocked == isAnimating

\* The budget check one attempt late.
triesSpentLate(tries) == tries > MAX_START_TRIES + 1

\* startTries.current > MAX_START_TRIES   (line 151)
triesSpent(tries) == tries > MAX_START_TRIES

\* The abort without its reset of the counter.
triesKept == startTries

\* startTries.current = 0 of the abort   (line 152)
triesAfterAbort == 0

\* The continuation without its reset of the flag.
afterMoveFlagKept(kind) ==
  /\ isAnimating' = isAnimating
  /\ startTries' = (IF kind = "start" THEN 0 ELSE startTries)
  /\ emitted' = (IF kind = "nav" THEN <<Ev("stepMove", 0)>> ELSE << >>)

\* The `.then` of the timer's move (lines 130-133) and the lines after start's
\* await of its move (lines 168-169): what a call does once its move resolved.
\* A re-run of _animateMove by the modal (kind "rerun") has no continuation.
afterMove(kind) ==
  /\ isAnimating' = (IF kind \in {"start", "nav"} THEN FALSE ELSE isAnimating)
  /\ startTries' = (IF kind = "start" THEN 0 ELSE startTries)
  /\ emitted' = (IF kind = "nav" THEN <<Ev("stepMove", 0)>> ELSE << >>)

\* The layout step.wrapperRef.current.measureLayout(nodeHandle, ...) reports
\* for a step: its position inside the scroll view and its size.
wrapperLayout(step) ==
  [y |-> env.wrapperY + (step - 1) * Px(60), height |-> env.wrapperHeight]

\* const yOffset = y > 0 ? y - h / 2 : 0   (line 120), as twice its value, so
\* that the half of an odd h is exact.
yOffset2(y, h) == IF Gt(y, 0) THEN Sub(Add(y, y), h) ELSE 0

\* The scroll request of setCurrentStep (lines 114-125): with a scroll view in
\* the closure, a node handle for it and a step, measureLayout is called and
\* its callback is left pending.
requestScroll(step, closureScrollView) ==
  IF closureScrollView /\ env.nodeHandle /\ step # 0
  THEN [scroll EXCEPT !.pending = Append(@, step)]
  ELSE scroll

\* setCurrentStep(step, move) (lines 104-141) without its timer: the guard,
\* the flag, the step, the stepChange event and the scroll request.
\* `closureScrollView` is the scrollView state of the render the caller's
\* closure was made in.
setCurrentStep(step, closureScrollView) ==
  IF blocked
  THEN /\ UNCHANGED <<isAnimating, currentStep, scroll>>
       /\ emitted' = << >>
  ELSE /\ isAnimating' = TRUE
       /\ currentStep' = step
       /\ emitted' = <<Ev("stepChange", step)>>
       /\ scroll' = requestScroll(step, closureScrollView)

\* The move invoked in the turn of the call instead of by the settle timer.
scheduleMoveNow(step, move, i) ==
  IF move /\ step # 0
  THEN [tasks EXCEPT ![i] = [Task("nav", "measure", step) EXCEPT !.changed = TRUE]]
  ELSE tasks

\* if (move && step) setTimeout(...)   (lines 127-137): the task the timer
\* leaves in slot i.
scheduleMove(step, move, i) ==
  IF move /\ step # 0
  THEN [tasks EXCEPT ![i] = [Task("nav", "timer", step) EXCEPT !.changed = TRUE]]
  ELSE tasks

\* next(), prev(), nth(n) (lines 189-205): the call, to its end.
Navigate(name, target) ==
  /\ blocked \/ target = 0 \/ FreeSlots # {}
  /\ scrollRoom
  /\ op' = name
  /\ setCurrentStep(target, scrollView)
  /\ tasks' = IF blocked THEN tasks
              ELSE scheduleMove(target, TRUE, IF FreeSlots # {} THEN NewSlot ELSE 1)
  /\ UNCHANGED <<startTries, visible, scrollView, steps, modal, env>>

Next_ == Navigate("next", getNextStep)
Prev == Navigate("prev", getPrevStep)
Nth(n) == Navigate("nth", getNthStep(n))

\* The timer of setCurrentStep fires (lines 129-134): moveModalToStep(step)
\* runs to its await of step.measure().
TimerFires(i) ==
  /\ tasks[i].kind = "nav" /\ tasks[i].pc = "timer"
  /\ tasks' = [tasks EXCEPT ![i].pc = "measure"]
  /\ op' = "callback"
  /\ emitted' = << >>
  /\ UNCHANGED <<startTries, isAnimating, visible, scrollView, steps,
                 currentStep, modal, env, scroll>>

\* step.measure() resolves (moveModalToStep lines 88-99): with no size the
\* move returns and its caller goes on; with a size animateMove is called and
\* waits for the next frame.
MeasureResolves(i, available) ==
  /\ tasks[i].pc = "measure"
  /\ op' = "callback"
  /\ IF available
     THEN /\ tasks' = [tasks EXCEPT ![i] =
                         enqueue([@ EXCEPT !.pc = "frame",
                                           !.rect = moveRect(stepSize(tasks[i].step))])]
          /\ modal' = animateMoveCall(modal)
          /\ emitted' = << >>
          /\ UNCHANGED <<isAnimating, startTries>>
     ELSE /\ tasks' = [tasks EXCEPT ![i] = Idle]
          /\ modal' = modal
          /\ afterMove(tasks[i].kind)
  /\ UNCHANGED <<visible, scrollView, steps, currentStep, env, scroll>>

\* The frame animateMove asked for (lines 342-350): _animateMove records the
\* rect and awaits measure(), which resolves at once when the container's
\* layout is known and polls every frame when it is not.
FrameFires(i) ==
  /\ tasks[i].pc = "frame"
  /\ frameTurn(i)
  /\ op' = "callback"
  /\ LET recorded == recordRect(modal, tasks[i].rect, currentStep)
     IN  IF modal.layoutRef.width # 0
         THEN /\ modal' = applyMove(recorded, tasks[i].rect)
              /\ tasks' = dequeue(i)
              /\ afterMove(tasks[i].kind)
         ELSE /\ modal' = recorded
              /\ tasks' = [tasks EXCEPT ![i].pc = "layout"]
              /\ emitted' = << >>
              /\ UNCHANGED <<isAnimating, startTries>>
  /\ UNCHANGED <<visible, scrollView, steps, currentStep, env, scroll>>

\* A frame of measure()'s poll that finds the container's layout
\* (lines 159-171), and the rest of _animateMove.
LayoutFound(i) ==
  /\ tasks[i].pc = "layout"
  /\ frameTurn(i)
  /\ modal.layoutRef.width # 0
  /\ op' = "callback"
  /\ modal' = applyMove(modal, tasks[i].rect)
  /\ tasks' = dequeue(i)
  /\ afterMove(tasks[i].kind)
  /\ UNCHANGED <<visible, scrollView, steps, currentStep, env, scroll>>

\* start emitted by every attempt.
startEmitsAlways(spent, found) == <<Ev("start", 0)>>

\* copilotEvents.emit("start") (line 162): only in the branch that has found
\* the step, which the abort (lines 151-154) and the retry (lines 156-160)
\* do not reach.
startEmits(spent, found) ==
  IF ~spent /\ found # 0 THEN <<Ev("start", 0)>> ELSE << >>

\* start(fromStep, suppliedScrollView) (lines 143-170) to its first await,
\* its continuation kept in slot i.  `chain` is the retry chain the call
\* belongs to: Idle for a call of the application.
start(fromStep, supplied, i, chain) ==
  LET found == lookupStep(fromStep)
      others == [j \in Slots |->
                   IF j # i /\ tasks[j].kind = "retry"
                   THEN [tasks[j] EXCEPT !.solo = FALSE, !.attempts = 0]
                   ELSE tasks[j]]
      alone == \A j \in Slots \ {i} : tasks[j].kind \notin {"retry", "start"}
      \* the scrollView state this call's closure holds: the state of the
      \* render before the call, and of the first call of a retry chain
      closure == IF chain.kind = "retry" THEN chain.scrollView ELSE scrollView
  IN
  /\ scrollView' = (scrollView \/ supplied)
  /\ emitted' = startEmits(triesSpent(startTries), found)
  /\ IF triesSpent(startTries)
     THEN /\ startTries' = triesAfterAbort
          /\ tasks' = [others EXCEPT ![i] = Idle]
          /\ UNCHANGED <<visible, modal>>
     ELSE IF found = 0
     THEN /\ startTries' = startTries + 1
          /\ tasks' = [others EXCEPT ![i] =
                [Task("retry", "retry", fromStep) EXCEPT
                   !.scrollView = closure,
                   !.solo = IF chain.kind = "retry" THEN chain.solo ELSE alone,
                   !.attempts = IF chain.kind = "retry" /\ chain.solo
                                THEN chain.attempts + 1 ELSE 0]]
          /\ UNCHANGED <<visible, modal>>
     ELSE /\ visible' = TRUE
          /\ modal' = visibleEffects(modal, visible, TRUE)
          /\ tasks' = [others EXCEPT ![i] =
                [Task("start", "vis", found) EXCEPT !.scrollView = closure]]
          /\ startTries' = startTries
  /\ UNCHANGED <<isAnimating, steps, currentStep, env, scroll>>

\* The application calls start.
Start(fromStep, supplied) ==
  /\ FreeSlots # {}
  /\ op' = "start"
  /\ start(fromStep, supplied, NewSlot, Idle)

\* The frame a start asked for when it found no step (lines 158-160).
RetryFires(i) ==
  /\ tasks[i].kind = "retry"
  /\ op' = "retry"
  /\ start(tasks[i].step, FALSE, i, tasks[i])

\* start after its await of setVisibility(true) (lines 166-167):
\* setCurrentStep(currentStep, false), then moveModalToStep to its await of
\* step.measure().
StartResumes(i) ==
  /\ tasks[i].kind = "start" /\ tasks[i].pc = "vis"
  /\ scrollRoom
  /\ op' = "callback"
  /\ setCurrentStep(tasks[i].step, tasks[i].scrollView)
  /\ tasks' = [scheduleMove(tasks[i].step, FALSE, i) EXCEPT
                 ![i].pc = "measure", ![i].changed = ~blocked]
  /\ UNCHANGED <<startTries, visible, scrollView, steps, modal, env>>

\* stop() (lines 183-187) to its await of setVisibility(false).
Stop ==
  /\ FreeSlots # {}
  /\ op' = "stop"
  /\ visible' = FALSE
  /\ modal' = visibleEffects(modal, visible, FALSE)
  /\ tasks' = [tasks EXCEPT ![NewSlot] = Task("stop", "vis", 0)]
  /\ emitted' = << >>
  /\ UNCHANGED <<startTries, isAnimating, scrollView, steps, currentStep, env, scroll>>

\* stop() after its await (lines 185-186).
StopResumes(i) ==
  /\ tasks[i].kind = "stop"
  /\ op' = "callback"
  /\ isAnimating' = FALSE
  /\ emitted' = <<Ev("stop", 0)>>
  /\ tasks' = [tasks EXCEPT ![i] = Idle]
  /\ UNCHANGED <<startTries, visible, scrollView, steps, currentStep, modal, env, scroll>>

\* The callback of measureLayout (lines 119-122): the offset is computed from
\* the measured y and height and handed to scrollView.scrollTo.
ScrollMeasured ==
  /\ scroll.pending # << >>
  /\ op' = "scroll"
  /\ LET measured == wrapperLayout(Head(scroll.pending))
     IN  scroll' = [pending |-> Tail(scroll.pending),
                    requested |-> Some(yOffset2(measured.y, measured.height))]
  /\ emitted' = << >>
  /\ UNCHANGED <<startTries, isAnimating, visible, scrollView, steps,
                 currentStep, tasks, modal, env>>

\* ---------------------------------------------------- the modal's handlers
\* handleLayoutChange (lines 153-157): the container lays out once the Modal
\* is rendered.
ContainerLayout ==
  /\ modalVisible
  /\ modal.layoutRef # env.window
  /\ op' = "layout"
  /\ modal' = [modal EXCEPT !.layoutRef = env.window]
  /\ emitted' = << >>
  /\ UNCHANGED <<startTries, isAnimating, visible, scrollView, steps,
                 currentStep, tasks, env, scroll>>

\* The condition without its comparison of the step names.
shouldRerunAnyStep(m) ==
  /\ m.tooltipHeight > 0
  /\ m.currentRectRef # None
  /\ m.currentRectRef[1].calculatedWithHeight # m.tooltipHeight

\* The condition of the effect keyed on [tooltipHeight] (lines 136-141).
shouldRerun(m) ==
  /\ m.tooltipHeight > 0
  /\ m.currentRectRef # None
  /\ m.currentRectRef[1].calculatedWithHeight # m.tooltipHeight
  /\ m.currentRectRef[1].stepName = currentStep

\* The tooltip's onLayout (lines 491-495) and the effect keyed on
\* [tooltipHeight] (lines 135-145), which re-runs _animateMove with the
\* recorded rect.
TooltipLayout(newHeight) ==
  /\ contentVisible /\ currentStep # 0
  /\ newHeight # modal.tooltipHeight
  /\ op' = "layout"
  /\ emitted' = << >>
  /\ LET measured == [modal EXCEPT !.tooltipHeightRef = newHeight,
                                   !.tooltipHeight = newHeight]
     IN  IF shouldRerun(measured)
         THEN LET rect == measured.currentRectRef[1].rect
                  recorded == recordRect(measured, rect, currentStep)
              IN  IF measured.layoutRef.width # 0
                  THEN /\ modal' = applyMove(recorded, rect)
                       /\ tasks' = tasks
                  ELSE /\ FreeSlots # {}
                       /\ modal' = recorded
                       /\ tasks' = [tasks EXCEPT ![NewSlot] =
                                      enqueue([Task("rerun", "layout", currentStep) EXCEPT !.rect = rect])]
         ELSE /\ modal' = measured
              /\ tasks' = tasks
  /\ UNCHANGED <<startTries, isAnimating, visible, scrollView, steps,
                 currentStep, env, scroll>>

\* handleMaskClick (lines 377-381): handleStop is reset() and then stop().
MaskClick ==
  /\ contentVisible
  /\ env.stopOnOutsideClick
  /\ FreeSlots # {}
  /\ op' = "maskClick"
  /\ visible' = FALSE
  /\ modal' = visibleEffects(reset(modal), visible, FALSE)
  /\ tasks' = [tasks EXCEPT ![NewSlot] = Task("stop", "vis", 0)]
  /\ emitted' = << >>
  /\ UNCHANGED <<startTries, isAnimating, scrollView, steps, currentStep, env, scroll>>

\* ------------------------------------------------------- the application
\* registerStep of useStepsMap: a step mounts.
RegisterStep(s) ==
  /\ s \notin steps
  /\ steps' = steps \cup {s}
  /\ op' = "registerStep"
  /\ emitted' = << >>
  /\ UNCHANGED <<startTries, isAnimating, visible, scrollView, currentStep,
                 tasks, modal, env, scroll>>

\* ------------------------------------------------------ the specification
\* The heights the tooltip may render with, in pixels times Scale.
TooltipHeights == {Px(100) + 1}

\* A phone screen in portrait, Android with the status bar hidden.
tourEnv ==
  [insets |-> [top |-> Px(24), bottom |-> Px(16)],
   margin |-> Px(MARGIN),
   arrowSize |-> Px(ARROW_SIZE),
   statusBar |-> Px(24),
   verticalOffset |-> 0,
   stopOnOutsideClick |-> TRUE,
   mask |-> "SvgMask",
   animated |-> FALSE,
   suppliesScrollView |-> TRUE,
   nodeHandle |-> FALSE,
   wrapperY |-> 0,
   wrapperHeight |-> Px(40),
   window |-> [x |-> 0, y |-> 0, width |-> Px(400), height |-> Px(800)]]

Init ==
  /\ startTries = 0
  /\ isAnimating = FALSE
  /\ visible = FALSE
  /\ scrollView = FALSE
  /\ scroll = noScroll
  /\ steps = {}
  /\ currentStep = 0
  /\ tasks = [i \in Slots |-> Idle]
  /\ modal = initialModal
  /\ env = tourEnv
  /\ op = "init"
  /\ emitted = << >>

\* The tour of an application that starts it at a step that is mounted.
Next ==
  \/ \E s \in Steps : RegisterStep(s)
  \/ \E s \in Steps \cup {0} : lookupStep(s) # 0 /\ Start(s, env.suppliesScrollView)
  \/ Stop
  \/ Next_
  \/ Prev
  \/ \E n \in Steps : Nth(n)
  \/ \E i \in Slots : StartResumes(i)
  \/ \E i \in Slots : StopResumes(i)
  \/ \E i \in Slots : TimerFires(i)
  \/ \E i \in Slots : \E available \in BOOLEAN : MeasureResolves(i, available)
  \/ \E i \in Slots : FrameFires(i)
  \/ \E i \in Slots : LayoutFound(i)
  \/ ContainerLayout
  \/ \E h \in TooltipHeights : TooltipLayout(h)
  \/ MaskClick

Spec == Init /\ [][Next]_vars

\* The tour of an application that starts it at a step that may not be
\* mounted yet, or ever: start's retries, with stop and the mounting of steps.
\* A name past NumSteps is the name of no step.
StartNames == {0, NumSteps + 1}

NextRetry ==
  \/ \E s \in Steps : RegisterStep(s)
  \/ \E s \in StartNames : Start(s, env.suppliesScrollView)
  \/ Stop
  \/ \E i \in Slots : RetryFires(i)
  \/ \E i \in Slots : StartResumes(i)
  \/ \E i \in Slots : StopResumes(i)
  \/ \E i \in Slots : \E available \in BOOLEAN : MeasureResolves(i, available)
  \/ \E i \in Slots : FrameFires(i)
  \/ \E i \in Slots : LayoutFound(i)
  \/ ContainerLayout

RetrySpec == Init /\ [][NextRetry]_vars

\* The geometry computation on its own: the modal is inside _animateMove, at
\* its await of measure(), with a rect, a container, insets, a margin, a
\* status bar and a known tooltip height drawn from the sets below; the move
\* then completes, and the tooltip lays out with another height, which re-runs
\* the move.  Lengths with a `+ 1` are a fraction of a pixel off the grid.
GeoRectYs == {NaN, Px(0 - 20), Px(0), Px(30) + 1, Px(100), Px(198)}
GeoRectXs == {NaN, Px(0 - 10), Px(0), Px(5) + 1, Px(60), Px(90)}
GeoRectHeights == {Px(20), Px(40) + 1, Px(170)}
GeoInsets == {[top |-> 0, bottom |-> 0],
              [top |-> Px(10) + 1, bottom |-> Px(5) + 1],
              [top |-> Px(24), bottom |-> Px(16)]}
GeoMargins == {0, Px(MARGIN)}
GeoHeights == {Px(50), Px(90) + 1, Px(170), Px(250)}
GeoStatusBars == {0, Px(24)}
GeoWindow == [x |-> 0, y |-> 0, width |-> Px(100), height |-> Px(200)]

GeoInit ==
  /\ startTries = 0
  /\ isAnimating = FALSE
  /\ visible = TRUE
  /\ scrollView = FALSE
  /\ scroll = noScroll
  /\ steps = {1}
  /\ currentStep = 1
  /\ op = "init"
  /\ emitted = << >>
  /\ \E insets \in GeoInsets, margin \in GeoMargins, statusBar \in GeoStatusBars :
       env = [tourEnv EXCEPT !.insets = insets, !.margin = margin,
                             !.statusBar = statusBar, !.window = GeoWindow]
  /\ \E x \in GeoRectXs, y \in GeoRectYs, height \in GeoRectHeights,
        known \in GeoHeights \cup {0} :
       LET rect == [x |-> x, y |-> y, width |-> Px(30), height |-> height]
           mounted == [initialModal EXCEPT !.containerVisible = TRUE,
                                           !.layoutRef = GeoWindow,
                                           !.tooltipHeight = known,
                                           !.tooltipHeightRef = known]
       IN  /\ modal = recordRect(mounted, rect, 1)
           /\ tasks = [i \in Slots |->
                         IF i = 1
                         THEN [Task("rerun", "layout", 1) EXCEPT !.rect = rect]
                         ELSE Idle]

NextGeo ==
  \/ \E i \in Slots : LayoutFound(i)
  \/ \E h \in GeoHeights : TooltipLayout(h)

GeoSpec == GeoInit /\ [][NextGeo]_vars

\* The tour with each of the mask components, animated or not: steps mount,
\* the tour starts, moves from step to step and stops, and the tweens on the
\* mask's values end in their own time.
MaskKinds == {"SvgMask", "part_001", "ViewMask"}

MaskInit ==
  /\ startTries = 0
  /\ isAnimating = FALSE
  /\ visible = FALSE
  /\ scrollView = FALSE
  /\ scroll = noScroll
  /\ steps = {}
  /\ currentStep = 0
  /\ tasks = [i \in Slots |-> Idle]
  /\ modal = initialModal
  /\ \E kind \in MaskKinds, animated \in BOOLEAN :
       env = [tourEnv EXCEPT !.mask = kind, !.animated = animated]
  /\ op = "init"
  /\ emitted = << >>

\* Animated.timing's interpolation reaches its toValue.
MaskTweenEnds ==
  /\ modal.mask.tweens > 0
  /\ op' = "tween"
  /\ modal' = tweenEnds(modal)
  /\ emitted' = << >>
  /\ UNCHANGED <<startTries, isAnimating, visible, scrollView, steps,
                 currentStep, tasks, env, scroll>>

NextMask ==
  \/ \E s \in Steps : RegisterStep(s)
  \/ \E s \in Steps \cup {0} : lookupStep(s) # 0 /\ Start(s, env.suppliesScrollView)
  \/ Stop
  \/ \E n \in Steps : Nth(n)
  \/ \E i \in Slots : StartResumes(i)
  \/ \E i \in Slots : StopResumes(i)
  \/ \E i \in Slots : TimerFires(i)
  \/ \E i \in Slots : \E available \in BOOLEAN : MeasureResolves(i, available)
  \/ \E i \in Slots : FrameFires(i)
  \/ \E i \in Slots : LayoutFound(i)
  \/ ContainerLayout
  \/ MaskTweenEnds

MaskSpec == MaskInit /\ [][NextMask]_vars

\* The mask component with its listener: the modal is mounted with two moves
\* waiting for their frame, to rects drawn from the set below; the moves
\* complete, the mask lays out, and its tweens end.
ListenerRects ==
  {[x |-> Px(10), y |-> Px(30), width |-> Px(30), height |-> Px(20)],
   [x |-> Px(10), y |-> Px(100), width |-> Px(30), height |-> Px(20)],
   [x |-> Px(60), y |-> Px(100) + 1, width |-> Px(30), height |-> Px(40)]}
ListenerKinds == {"SvgMask", "part_001"}

ListenerInit ==
  /\ startTries = 0
  /\ isAnimating = FALSE
  /\ visible = TRUE
  /\ scrollView = FALSE
  /\ scroll = noScroll
  /\ steps = {1}
  /\ currentStep = 1
  /\ op = "init"
  /\ emitted = << >>
  /\ \E kind \in ListenerKinds, animated \in BOOLEAN :
       env = [tourEnv EXCEPT !.mask = kind, !.animated = animated,
                             !.window = GeoWindow]
  /\ \E first \in ListenerRects, second \in ListenerRects :
       LET mounted == [initialModal EXCEPT !.containerVisible = TRUE,
                                           !.layoutRef = GeoWindow]
       IN  /\ modal = recordRect(mounted, second, 1)
           /\ tasks = [i \in Slots |->
                         IF i = 1
                         THEN [Task("rerun", "layout", 1) EXCEPT !.rect = first]
                         ELSE IF i = 2
                         THEN [Task("rerun", "layout", 1) EXCEPT
                                 !.rect = second, !.ahead = 1]
                         ELSE Idle]

\* The mask's View lays out.
MaskLayout ==
  /\ modal.mask.mounted /\ ~modal.mask.laidOut
  /\ op' = "maskLayout"
  /\ modal' = [modal EXCEPT !.mask = handleLayout(@, env.mask)]
  /\ emitted' = << >>
  /\ UNCHANGED <<startTries, isAnimating, visible, scrollView, steps,
                 currentStep, tasks, env, scroll>>

NextListener ==
  \/ \E i \in Slots : LayoutFound(i)
  \/ \E h \in GeoHeights : TooltipLayout(h)
  \/ MaskLayout
  \/ MaskTweenEnds

ListenerSpec == ListenerInit /\ [][NextListener]_vars

\* The tour without stop: steps mount, the tour starts and moves from step to
\* step, and the frames, the container's layout and the tooltip's layout
\* arrive.  React Native runs every requested frame and lays out a mounted
\* container, so the frame and layout callbacks are weakly fair.
NextMove ==
  \/ \E s \in Steps : RegisterStep(s)
  \/ \E s \in Steps \cup {0} : lookupStep(s) # 0 /\ Start(s, env.suppliesScrollView)
  \/ Next_
  \/ Prev
  \/ \E n \in Steps : Nth(n)
  \/ \E i \in Slots : StartResumes(i)
  \/ \E i \in Slots : TimerFires(i)
  \/ \E i \in Slots : \E available \in BOOLEAN : MeasureResolves(i, available)
  \/ \E i \in Slots : FrameFires(i)
  \/ \E i \in Slots : LayoutFound(i)
  \/ ContainerLayout
  \/ \E h \in TooltipHeights : TooltipLayout(h)

\* A frame callback can run: the guard of FrameFires, every step of which
\* changes tasks.
FrameDue == \E i \in Slots : tasks[i].pc = "frame" /\ frameTurn(i)

\* A poll of measure() can find the layout: the guard of LayoutFound, every
\* step of which changes tasks.
LayoutDue ==
  \E i \in Slots :
    tasks[i].pc = "layout" /\ frameTurn(i) /\ modal.layoutRef.width # 0

\* Weak fairness of the frame callbacks, of the polls and of the container's
\* onLayout; the first two are WF_vars(\E i \in Slots : FrameFires(i)) and
\* WF_vars(\E i \in Slots : LayoutFound(i)) with ENABLED written out as the
\* action's guard.
MoveSpec ==
  /\ Init
  /\ [][NextMove]_vars
  /\ ([]<>~FrameDue \/ []<><<\E i \in Slots : FrameFires(i)>>_vars)
  /\ ([]<>~LayoutDue \/ []<><<\E i \in Slots : LayoutFound(i)>>_vars)
  /\ WF_vars(ContainerLayout)

\* The tour inside a scroll view: the application hands start a scroll view
\* that has a node handle, and the steps' wrappers are measured at the
\* positions below (pixels times Scale, relative to the scroll view's
\* content).
WrapperYs == {Px(0 - 10), Px(10), Px(100) + 1}
WrapperHeights == {Px(40) + 1}

ScrollInit ==
  /\ startTries = 0
  /\ isAnimating = FALSE
  /\ visible = FALSE
  /\ scrollView = FALSE
  /\ scroll = noScroll
  /\ steps = {}
  /\ currentStep = 0
  /\ tasks = [i \in Slots |-> Idle]
  /\ modal = initialModal
  /\ \E y \in WrapperYs, h \in WrapperHeights :
       env = [tourEnv EXCEPT !.nodeHandle = TRUE, !.wrapperY = y,
                             !.wrapperHeight = h]
  /\ op = "init"
  /\ emitted = << >>

NextScroll ==
  \/ \E s \in Steps : RegisterStep(s)
  \/ \E s \in Steps \cup {0} : lookupStep(s) # 0 /\ Start(s, env.suppliesScrollView)
  \/ Next_
  \/ \E i \in Slots : StartResumes(i)
  \/ \E i \in Slots : TimerFires(i)
  \/ \E i \in Slots : MeasureResolves(i, TRUE)
  \/ \E i \in Slots : FrameFires(i)
  \/ \E i \in Slots : LayoutFound(i)
  \/ ContainerLayout
  \/ ScrollMeasured

ScrollSpec == ScrollInit /\ [][NextScroll]_vars

\* ------------------------------------------------------------- the claims
NavOps == {"next", "prev", "nth"}
IsNav(t) == t.kind = "nav"
WillEmit(name) == \E k \in 1..Len(emitted') : emitted'[k].ev = name
AllIdle == \A i \in Slots : tasks[i] = Idle

\* C1: a next(), prev() or nth(n) call made while the transitioning flag is
\* set is dropped: it emits nothing, leaves the current step, the flag, the
\* pending calls and the modal as they were.  While the flag is set no turn
\* emits stepChange, changes the current step or schedules a move; the call
\* that begins a transition emits exactly one stepChange, and stepMove is
\* emitted exactly once, by the turn in which that transition's move resolves.
C1_DroppedNotQueued ==
  [][ /\ (isAnimating /\ op' \in NavOps) =>
            /\ emitted' = << >>
            /\ UNCHANGED <<isAnimating, currentStep, tasks, modal, visible, startTries>>
      /\ isAnimating =>
            /\ ~WillEmit("stepChange")
            /\ currentStep' = currentStep
            /\ \A i \in Slots : IsNav(tasks'[i]) => tasks[i].kind = "nav"
      /\ \A i \in Slots : (~IsNav(tasks[i]) /\ IsNav(tasks'[i])) =>
            emitted' = <<Ev("stepChange", tasks'[i].step)>>
      /\ WillEmit("stepMove") <=>
            \E i \in Slots : IsNav(tasks[i]) /\ tasks'[i] = Idle
      /\ WillEmit("stepMove") => emitted' = <<Ev("stepMove", 0)>>
    ]_vars

\* A second navigation call was made while a transition was in flight, and
\* was dropped.
C1_Witness ==
  /\ op \in NavOps
  /\ isAnimating
  /\ emitted = << >>
  /\ \E i \in Slots : IsNav(tasks[i])

\* C2: whenever no call is pending (no settle timer, measurement, move or
\* visibility change is awaited), the transitioning flag is false.
C2_FlagResetOnEveryExit == AllIdle => ~isAnimating

\* A transition is in flight from the turn that sets its flag until its move
\* resolves: a navigation from its call on, a start from its step change on.
InFlight(t) == t.kind = "nav" \/ (t.kind = "start" /\ t.pc # "vis")

\* C3: at most one controller-initiated transition is in flight at a time,
\* and the transitioning flag is true whenever one is.
C3_OneTransitionInFlight ==
  /\ Cardinality({i \in Slots : InFlight(tasks[i])}) <= 1
  /\ (\E i \in Slots : InFlight(tasks[i])) => isAnimating

\* The awaits of a transition, in the order the code reaches them.
PcRank(pc) ==
  CASE pc = "timer" -> 1
    [] pc = "measure" -> 2
    [] pc = "frame" -> 3
    [] pc = "layout" -> 4
    [] OTHER -> 0

\* C4: within one transition started by next / prev / nth: the call sets the
\* flag and the current step and emits stepChange, and leaves the move to the
\* settle timer (the call itself does not touch the modal); the transition
\* then only moves forward through timer, measurement, frame and layout; it
\* ends only after its move was invoked, and the turn that ends it clears the
\* flag and emits stepMove.  stepMove is emitted by no other turn, so never
\* before the stepChange of its transition.
C4_TransitionOrder ==
  [][ /\ \A i \in Slots :
          /\ (~IsNav(tasks[i]) /\ IsNav(tasks'[i])) =>
                /\ tasks'[i].pc = "timer"
                /\ ~isAnimating /\ isAnimating'
                /\ currentStep' = tasks'[i].step
                /\ emitted' = <<Ev("stepChange", tasks'[i].step)>>
                /\ modal' = modal
          /\ (IsNav(tasks[i]) /\ IsNav(tasks'[i])) =>
                /\ PcRank(tasks'[i].pc) >= PcRank(tasks[i].pc)
                /\ tasks'[i].step = tasks[i].step
          /\ (IsNav(tasks[i]) /\ ~IsNav(tasks'[i])) =>
                /\ tasks[i].pc \in {"measure", "frame", "layout"}
                /\ tasks'[i] = Idle
                /\ ~isAnimating'
                /\ emitted' = <<Ev("stepMove", 0)>>
      /\ WillEmit("stepMove") => \E i \in Slots : IsNav(tasks[i]) /\ ~IsNav(tasks'[i])
    ]_vars

\* A transition has just completed: its stepMove is out and the flag is clear.
C4_Witness ==
  /\ emitted = <<Ev("stepMove", 0)>>
  /\ ~isAnimating
  /\ currentStep # 0
  /\ modal.maskRect # None

\* A retry chain that no other start() call has overlapped.
SoloRetry(t) == t.kind = "retry" /\ t.solo

\* C5: a start() call whose step is never found makes at most
\* MAX_START_TRIES retry attempts, one per animation frame: its count of
\* retries never exceeds MAX_START_TRIES and is one behind the counter; each
\* frame before the last makes one more attempt (or finds the step), and the
\* frame after the last attempt resets the counter to 0 and schedules nothing.
C5_RetryBudget ==
  /\ [](\A i \in Slots : SoloRetry(tasks[i]) =>
          /\ tasks[i].attempts <= MAX_START_TRIES
          /\ startTries = tasks[i].attempts + 1)
  /\ [][ \A i \in Slots : (SoloRetry(tasks[i]) /\ op' = "retry") =>
           IF tasks[i].attempts = MAX_START_TRIES
           THEN /\ startTries' = 0
                /\ \A j \in Slots : tasks'[j].kind # "retry"
           ELSE \/ /\ tasks'[i].kind = "retry"
                   /\ tasks'[i].attempts = tasks[i].attempts + 1
                   /\ startTries' = startTries + 1
                \/ tasks'[i].kind = "start"
       ]_vars

\* The chain has made its last attempt: the next frame gives up.
C5_Witness ==
  \E i \in Slots :
    /\ SoloRetry(tasks[i])
    /\ tasks[i].attempts = MAX_START_TRIES
    /\ startTries = MAX_START_TRIES + 1

\* A turn of start() that finds no step to show: it creates no start
\* continuation.
StartFindsNothing ==
  /\ op' \in {"start", "retry"}
  /\ \A i \in Slots : tasks'[i].kind = "start" => tasks[i].kind = "start"

\* C6: a turn of start() that finds no step emits nothing and leaves the
\* visibility, the current step, the flag and the modal alone; the turn that
\* finds the retry budget spent resets the counter to 0 and schedules no
\* further retry.
C6_SilentAbort ==
  [][ /\ StartFindsNothing =>
            /\ emitted' = << >>
            /\ UNCHANGED <<visible, currentStep, isAnimating, modal>>
      /\ (op' \in {"start", "retry"} /\ startTries > MAX_START_TRIES) =>
            /\ StartFindsNothing
            /\ startTries' = 0
            /\ \A i \in Slots : tasks'[i].kind = "retry" =>
                  /\ tasks[i].kind = "retry"
                  /\ tasks'[i].step = tasks[i].step
            /\ op' = "retry" =>
                  Cardinality({i \in Slots : tasks'[i].kind = "retry"})
                    < Cardinality({i \in Slots : tasks[i].kind = "retry"})
    ]_vars

\* The retry frame has given up: nothing pending, nothing shown, nothing
\* emitted, counter back at 0.
C6_Witness ==
  /\ op = "retry"
  /\ AllIdle
  /\ startTries = 0
  /\ emitted = << >>
  /\ ~visible /\ currentStep = 0 /\ ~isAnimating

\* C7: a start() that has reached its move has changed the step (set the
\* current step to the one it found and emitted stepChange) and holds the
\* transitioning flag while the move is pending.
C7_StartOrder ==
  \A i \in Slots :
    (tasks[i].kind = "start" /\ tasks[i].pc \in {"measure", "frame", "layout"}) =>
       /\ tasks[i].changed
       /\ isAnimating

\* The modal as reset() leaves it.
IsReset(m) == m = reset(m)

\* C8: a stop() call, whatever the state it is made in, leaves the tour not
\* visible, the container unmounted and the modal's geometry and animated
\* scalars at their defaults; its completion clears the flag and emits stop.
C8_StopResets ==
  [][ /\ op' \in {"stop", "maskClick"} => (~visible' /\ IsReset(modal'))
      /\ WillEmit("stop") => (~isAnimating' /\ emitted' = <<Ev("stop", 0)>>)
    ]_vars

\* C9: while the tour is visible the container is mounted, step moves
\* included; a turn that unmounts the container is a stop (stop() itself or
\* the mask's handleStop) and leaves the tour not visible.
C9_ContainerMounted ==
  /\ [](visible => modal.containerVisible)
  /\ [][ (modal.containerVisible /\ ~modal.containerVisible') =>
            (op' \in {"stop", "maskClick"} /\ ~visible') ]_vars

\* The tour is visible and a step move has completed with the container
\* mounted.
C9_Witness ==
  /\ visible
  /\ modal.containerVisible
  /\ modal.layout # None
  /\ emitted = <<Ev("stepMove", 0)>>

\* The inputs of the latest geometry computation, as the modal holds them.
GeoRect == compensate(modal.currentRectRef[1].rect, env.statusBar)
SafeTop == env.insets.top + env.margin
SafeBottom == modal.layoutRef.height - env.insets.bottom - env.margin
Moved == modal.layout # None /\ modal.currentRectRef # None
HasTop == "top" \in DOMAIN modal.tooltipStyles
HasBottom == "bottom" \in DOMAIN modal.tooltipStyles
\* The tooltip's top edge: its `top`, or what its `bottom` and the known
\* height make of it.
TooltipTopEdge ==
  IF HasTop THEN modal.tooltipStyles.top
  ELSE modal.layoutRef.height - modal.tooltipStyles.bottom - modal.tooltipHeightRef

C11_Idempotent ==
  (Moved /\ modal.currentRectRef[1].calculatedWithHeight = modal.tooltipHeightRef) =>
     LET rec == modal.currentRectRef[1]
     IN  applyMove(recordRect(modal, rec.rect, rec.stepName), rec.rect) = modal

\* A two-phase re-run has happened, with a status bar to compensate for and a
\* rect that is off the pixel grid.
C11_Witness ==
  /\ Moved
  /\ op = "layout"
  /\ env.statusBar > 0
  /\ modal.currentRectRef[1].calculatedWithHeight = modal.tooltipHeightRef
  /\ modal.tooltipHeightRef > 0
  /\ IsNum(modal.currentRectRef[1].rect.y)
  /\ MathFloor(modal.currentRectRef[1].rect.y) # modal.currentRectRef[1].rect.y

\* A value a consumer can take: absent, or a whole number of pixels.
IsWhole(v) == IsNum(v) /\ v % Scale = 0
Clean(v) == v = Undefined \/ IsWhole(v)
AllClean(obj) == \A k \in DOMAIN obj : Clean(obj[k])

\* C12: after a move, for every input rect, no output is NaN and every
\* numeric output is an integer: the tooltip style, the arrow style, the mask
\* rect, and the targets of the top and stepNumberLeft animated values.
C12_Sanitized ==
  Moved =>
     /\ AllClean(modal.tooltipStyles)
     /\ AllClean(modal.arrowStyles.offsets)
     /\ AllClean(modal.maskRect[1])
     /\ AllClean(modal.animatedValues)

\* The side the latest move placed the tooltip on, as the arrow shows it.
PlacedBottom == modal.arrowStyles.colored = "borderBottomColor"
PlacedTop == modal.arrowStyles.colored = "borderTopColor"
SpaceAbove == GeoRect.y - env.insets.top - env.margin
SpaceBelow ==
  modal.layoutRef.height - (GeoRect.y + GeoRect.height) - env.insets.bottom - env.margin
Abs(n) == IF n < 0 THEN 0 - n ELSE n

\* C13: with a known tooltip height h > 0 the tooltip is placed bottom if
\* spaceBelow >= h; otherwise top if spaceAbove >= h; otherwise on the side
\* with the larger space, bottom on a tie.
C13_PlacementKnownHeight ==
  (Moved /\ modal.tooltipHeightRef > 0 /\ IsNum(GeoRect.y)) =>
     /\ PlacedBottom \/ PlacedTop
     /\ PlacedBottom <=>
          \/ SpaceBelow >= modal.tooltipHeightRef
          \/ SpaceAbove < modal.tooltipHeightRef /\ SpaceBelow >= SpaceAbove

\* A target near the container's bottom with room only above: placed top.
C13_Witness ==
  /\ Moved /\ modal.tooltipHeightRef > 0 /\ IsNum(GeoRect.y)
  /\ SpaceBelow < modal.tooltipHeightRef
  /\ SpaceAbove >= modal.tooltipHeightRef
  /\ PlacedTop

\* C14: with no known tooltip height (0) the tooltip is placed bottom exactly
\* when the target center is strictly farther from the container's bottom edge
\* than from its top edge, else top; placed bottom, its top is
\* max(rect.y + rect.height + margin, insets.top + margin), with no upper
\* clamp, floored when it is published.
C14_PlacementUnknownHeight ==
  (Moved /\ modal.tooltipHeightRef = 0 /\ IsNum(GeoRect.y)) =>
     LET center2y == 2 * GeoRect.y + GeoRect.height
         ideal == GeoRect.y + GeoRect.height + env.margin
     IN  /\ PlacedBottom \/ PlacedTop
         /\ PlacedBottom <=> Abs(center2y - 2 * modal.layoutRef.height) > Abs(center2y)
         /\ PlacedBottom =>
              /\ HasTop
              /\ modal.tooltipStyles.top =
                   MathFloor(IF ideal >= SafeTop THEN ideal ELSE SafeTop)

\* Height unknown, placed bottom, and the top is past where a clamp to the
\* safe area's bottom would have put it.
C14_Witness ==
  /\ Moved /\ modal.tooltipHeightRef = 0 /\ IsNum(GeoRect.y)
  /\ PlacedBottom /\ HasTop
  /\ modal.tooltipStyles.top > SafeBottom

\* C15: in no reachable state are two tweens running on the mask's size and
\* position values: a tween is started only after the one before was stopped.
C15_OneTweenPerValue == modal.mask.tweens <= 1

\* The geometry a move to `rect` publishes in modal state m.
PublishedBy(m, rect) ==
  LET g == computeGeometry(rect, m.layoutRef, env.insets, env.margin,
                           env.arrowSize, m.tooltipHeightRef, env.statusBar)
  IN  /\ m.tooltipStyles = g.tooltip
      /\ m.arrowStyles = [offsets |-> g.arrow, colored |-> g.arrowColored]
      /\ m.maskRect = Some(g.maskRect)
      /\ m.animatedValues = [top |-> g.top, stepNumberLeft |-> g.stepNumberLeft]

C17_TwoPhase ==
  [][ (/\ op' = "layout"
       /\ modal'.tooltipHeight # modal.tooltipHeight
       /\ modal.currentRectRef # None
       /\ modal.currentRectRef[1].calculatedWithHeight # modal'.tooltipHeight) =>
        LET rec == modal.currentRectRef[1]
        IN  IF rec.stepName = currentStep
            THEN /\ modal'.currentRectRef =
                      Some([rec EXCEPT !.calculatedWithHeight = modal'.tooltipHeight])
                 /\ modal'.tooltipHeightRef = modal'.tooltipHeight
                 /\ PublishedBy(modal', rec.rect)
            ELSE /\ modal'.currentRectRef = modal.currentRectRef
                 /\ modal'.tooltipStyles = modal.tooltipStyles
                 /\ modal'.arrowStyles = modal.arrowStyles
                 /\ modal'.maskRect = modal.maskRect
                 /\ modal'.animatedValues = modal.animatedValues
                 /\ tasks' = tasks
    ]_vars

\* The tooltip has reported its height after the user navigated away from
\* the recorded step: the record still carries the old height.
C17_Witness ==
  /\ op = "layout"
  /\ modal.tooltipHeight > 0
  /\ modal.currentRectRef # None
  /\ modal.currentRectRef[1].stepName # currentStep
  /\ modal.currentRectRef[1].calculatedWithHeight # modal.tooltipHeight

\* C18: for every target rect and container width the badge's left never
\* exceeds containerWidth - STEP_NUMBER_DIAMETER.
C18_BadgeWithinContainer ==
  (Moved /\ IsNum(GeoRect.x)) =>
     modal.animatedValues.stepNumberLeft <=
        modal.layoutRef.width - Px(STEP_NUMBER_DIAMETER)

HasLeft == "left" \in DOMAIN modal.tooltipStyles
HasRight == "right" \in DOMAIN modal.tooltipStyles

\* C19: the tooltip gets exactly one of right and left.  If the target's
\* center is strictly farther from the left edge than from the right edge,
\* right = max(containerWidth - (rect.x + rect.width), 0), or margin when that
\* is 0, and maxWidth = containerWidth - right - margin; otherwise
\* left = max(rect.x, 0), or margin when that is 0, and
\* maxWidth = containerWidth - left - margin (each floored when published).
C19_HorizontalPlacement ==
  (Moved /\ IsNum(GeoRect.x)) =>
     LET W == modal.layoutRef.width
         center2x == 2 * GeoRect.x + GeoRect.width
         r0 == IF W - (GeoRect.x + GeoRect.width) > 0
               THEN W - (GeoRect.x + GeoRect.width) ELSE 0
         right == IF r0 = 0 THEN env.margin ELSE r0
         l0 == IF GeoRect.x > 0 THEN GeoRect.x ELSE 0
         left == IF l0 = 0 THEN env.margin ELSE l0
     IN  /\ HasLeft # HasRight
         /\ HasRight <=> Abs(center2x) > Abs(center2x - 2 * W)
         /\ HasRight =>
              /\ modal.tooltipStyles.right = MathFloor(right)
              /\ modal.tooltipStyles.maxWidth = MathFloor(W - right - env.margin)
         /\ HasLeft =>
              /\ modal.tooltipStyles.left = MathFloor(left)
              /\ modal.tooltipStyles.maxWidth = MathFloor(W - left - env.margin)

\* A target that reaches past the container's right edge: the tooltip is
\* anchored by its right, at the margin.
C19_Witness ==
  /\ Moved /\ IsNum(GeoRect.x)
  /\ GeoRect.x + GeoRect.width > modal.layoutRef.width
  /\ env.margin > 0
  /\ HasRight
  /\ modal.tooltipStyles.right = env.margin

\* C20: placed bottom with a known height, tooltip.top is
\* max(min(idealTop, maxTop), insets.top + margin), the arrow's top is that
\* less twice the arrow size (each floored when published), and neither the
\* tooltip nor the arrow has a bottom.
C20_BottomCase ==
  (Moved /\ modal.tooltipHeightRef > 0 /\ IsNum(GeoRect.y) /\ PlacedBottom) =>
     LET ideal == GeoRect.y + GeoRect.height + env.margin
         maxTop == SafeBottom - modal.tooltipHeightRef
         lower == IF ideal <= maxTop THEN ideal ELSE maxTop
         top == IF lower >= SafeTop THEN lower ELSE SafeTop
     IN  /\ HasTop /\ ~HasBottom
         /\ modal.tooltipStyles.top = MathFloor(top)
         /\ DOMAIN modal.arrowStyles.offsets \cap {"top", "bottom"} = {"top"}
         /\ modal.arrowStyles.offsets.top = MathFloor(top - 2 * env.arrowSize)

\* The tooltip is taller than the safe area: the floor insets.top + margin
\* wins over maxTop.
C20_Witness ==
  /\ Moved /\ modal.tooltipHeightRef > 0 /\ IsNum(GeoRect.y) /\ PlacedBottom
  /\ SafeBottom - modal.tooltipHeightRef < SafeTop
  /\ modal.tooltipStyles.top = MathFloor(SafeTop)

\* C21: every mask rect the computation publishes has x >= 0 and y >= 0, and
\* its x, y, width and height are whole numbers of pixels.
C21_MaskRectInContainer ==
  Moved =>
     LET r == modal.maskRect[1]
     IN  /\ IsWhole(r.x) /\ r.x >= 0
         /\ IsWhole(r.y) /\ r.y >= 0
         /\ IsWhole(r.width)
         /\ IsWhole(r.height)

\* C22: with a scroll container registered, every scroll a step change
\* requests is to max(0, targetY - targetHeight / 2) of the step's measured
\* position, so the requested offset is never negative.
C22_ScrollOffset ==
  scroll.requested # None =>
     /\ scroll.requested[1] >= 0
     /\ \E s \in Steps :
          LET l == wrapperLayout(s)
          IN  scroll.requested[1] = (IF 2 * l.y - l.height > 0 THEN 2 * l.y - l.height ELSE 0)

\* C23: when the step's measure() yields no rect, the move calls no
\* animateMove (no move waits for a frame, the modal with its geometry and
\* animated values is unchanged), and the transition still completes: the
\* flag is cleared, a navigation emits stepMove and a start resets its tries.
C23_NoRectCompletes ==
  [][ \A i \in Slots :
        (tasks[i].pc = "measure" /\ tasks'[i].pc = "none") =>
           /\ modal' = modal
           /\ \A j \in Slots : Queued(tasks'[j]) => Queued(tasks[j])
           /\ tasks'[i] = Idle
           /\ isAnimating' = FALSE
           /\ tasks[i].kind = "nav" => emitted' = <<Ev("stepMove", 0)>>
           /\ tasks[i].kind = "start" => (emitted' = << >> /\ startTries' = 0)
           /\ UNCHANGED <<visible, currentStep>>
    ]_vars

\* A navigation has completed with stepMove although no rect was ever handed
\* to the modal.
C23_Witness ==
  /\ emitted = <<Ev("stepMove", 0)>>
  /\ modal.currentRectRef = None
  /\ modal.maskRect = None
  /\ ~isAnimating

\* C24: the mask's listener pushes the cutout path only when its inputs
\* (position, size, canvas size) changed since the last push, and pushes
\* nothing while the drawing target is not attached.
C24_PushOnlyOnChange ==
  /\ ~modal.mask.repeated
  /\ modal.mask.pushed # None => modal.mask.mounted

\* stop() has completed after a start() whose move is still pending, and no
\* start() was called since: the tour is not visible, no stop is at its
\* await, and a start is past its await of the visibility.
StoppedOverStart ==
  /\ ~visible
  /\ \A j \in Slots : tasks[j].kind # "stop"
  /\ \E i \in Slots : tasks[i].kind = "start"

\* C25: after stop() has completed and until the next start() call the tour
\* stays torn down, even if a transition or a start was pending at the stop:
\* no turn mounts the container, changes the modal from its reset state or
\* emits stepMove.
C25_StaysTornDown ==
  [][ (StoppedOverStart /\ ~visible') =>
         /\ modal'.containerVisible => modal.containerVisible
         /\ IsReset(modal) => IsReset(modal')
         /\ ~WillEmit("stepMove")
    ]_vars

\* C26: whenever the tour is visible and quiescent (flag false, nothing
\* pending), the rect the modal was last moved to is the rect of the current
\* step.
C26_ShownStepIsCurrent ==
  (visible /\ ~isAnimating /\ AllIdle /\ Moved) =>
     /\ currentStep # 0
     /\ modal.currentRectRef[1].rect = moveRect(stepSize(currentStep))

\* C27: a next(), prev() or nth(n) call made while the tour is not visible
\* and the flag is false changes nothing: the current step and the flag stay,
\* no stepChange is emitted, and no move is scheduled that would mount the
\* container and emit stepMove.
C27_NavigationNeedsTour ==
  [][ (op' \in NavOps /\ ~visible /\ ~isAnimating) =>
         /\ emitted' = << >>
         /\ UNCHANGED <<currentStep, isAnimating, tasks, modal>>
    ]_vars

\* C28: the start event is emitted exactly by the attempt of a start() call
\* that finds the step, alone and once: an attempt that schedules a retry or
\* aborts emits nothing, and a call that has emitted start makes no further
\* attempt.  The emitting turn is the one that sets the visibility, and the
\* tour's stepChange comes only from a start that has emitted start and is
\* past its await of the visibility.
C28_StartEmittedOnce ==
  [][ /\ WillEmit("start") <=>
           /\ op' \in {"start", "retry"}
           /\ \E i \in Slots : tasks'[i].kind = "start" /\ tasks[i].kind # "start"
      /\ WillEmit("start") => (emitted' = <<Ev("start", 0)>> /\ visible')
      /\ (~visible /\ visible') => WillEmit("start")
      /\ \A i \in Slots :
           (tasks[i].kind = "start" /\ tasks'[i].kind # "start") =>
              tasks'[i].kind = "none"
      /\ WillEmit("stepChange") =>
           \E i \in Slots : /\ tasks[i].kind = "start" /\ tasks[i].pc = "vis"
                            /\ tasks'[i].kind = "start" /\ tasks'[i].pc = "measure"
    ]_vars

\* A retry attempt has found the step: start is emitted by it, after
\* attempts that emitted nothing.
C28_Witness ==
  /\ op = "retry"
  /\ emitted = <<Ev("start", 0)>>
  /\ startTries > 0
  /\ visible

\* C29: the modal's isAnimated flag is false in every reachable state, so
\* every move takes the instant branch: no tween runs on top and
\* stepNumberLeft, and the turn in which a move resolves has set both values
\* to the move's targets.
C29_NeverAnimated ==
  /\ [](~modal.isAnimated /\ ~modal.tweening)
  /\ [][ \A i \in Slots :
           (Queued(tasks[i]) /\ ~Queued(tasks'[i])) =>
              LET g == computeGeometry(tasks[i].rect, modal'.layoutRef, env.insets,
                                       env.margin, env.arrowSize,
                                       modal'.tooltipHeightRef, env.statusBar)
              IN  /\ modal'.animatedValues.top = g.top
                  /\ modal'.animatedValues.stepNumberLeft = g.stepNumberLeft
                  /\ tasks'[i] = Idle
       ]_vars

\* A move has resolved and the two values are at its targets, off their
\* defaults.
C29_Witness ==
  /\ op = "callback"
  /\ AllIdle
  /\ Moved
  /\ ~modal.isAnimated
  /\ modal.animatedValues.top > 0
  /\ modal.animatedValues.stepNumberLeft > 0

=============================================================================
